---- MODULE Spec2Model ----
(***************************************************************************)
(* Model of examples/curl/curl_fuse.cpp: a curl_master that balances read  *)
(* jobs over a fixed pool of curl_worker actors, client_job actors that    *)
(* submit one job each, and the client that spawns them.                   *)
(*                                                                         *)
(* Every actor owns a mailbox (a FIFO sequence of messages).  A send       *)
(* appends to the receiver's mailbox.  An event-based actor takes the      *)
(* first message of its mailbox that its active behaviour handles; other   *)
(* messages stay where they are.  All actors of the example are spawned    *)
(* detached, so their steps interleave freely.                             *)
(***************************************************************************)
EXTENDS Integers, Sequences, FiniteSets, TLC

(***************************************************************************)
(* Bounds of the model.                                                    *)
(***************************************************************************)
\* Pool size.  The source sets num_curl_workers = 10 (curl_fuse.cpp:92);
\* the model runs the same code with a smaller pool.
num_curl_workers == 2

\* Number of client_job actors the client spawns before the model stops
\* producing ticks (the source never stops).
MaxJobs == 3

\* Number of client_job actors spawned when response bodies are modelled.
MaxTransferJobs == 2

\* Number of bytes of the remote resource the transport hands over at most
\* during one attempt.
MaxBody == 2

\* Number of client_job actors spawned when the shutdown is modelled.
MaxShutdownJobs == 1

(***************************************************************************)
(* Program constants.                                                      *)
(***************************************************************************)
RangeFirst == 0
RangeLast == 4095
HttpOk == 200
HttpPartial == 206
HttpNotFound == 404
HttpOther == 500

Url == "http://www.example.com/index.html"

(***************************************************************************)
(* Actors.                                                                 *)
(***************************************************************************)
Master == <<"curl_master", 0>>
Worker(i) == <<"curl_worker", i>>
ClientJob(j) == <<"client_job", j>>
Client == <<"client", 0>>
NoActor == <<"invalid_actor", 0>>

Workers == {Worker(i) : i \in 1..num_curl_workers}
ClientJobs == {ClientJob(j) : j \in 1..MaxJobs}
Actors == {Master, Client} \cup Workers \cup ClientJobs

VARIABLES
  m_idle_worker,  \* curl_master::m_idle_worker, a vector of workers
  m_busy_worker,  \* curl_master::m_busy_worker, a vector of workers
  bhvr_stack,     \* behaviour stack of the master: "base", then "wait"
  mbox,           \* mailbox of every actor
  w_pc,           \* position of every worker in its read handler
  w_cur,          \* the read message a worker is handling
  m_buf,          \* curl_worker::m_buf of every worker
  handed,         \* ghost: bytes the transport handed over in the attempt
                  \* a worker is in, empty outside an attempt
  m_count,        \* client::m_count
  next_pending,   \* number of 'next' messages on their way to the client
  cj_pc,          \* state of every client_job
  cj_got,         \* ghost: the message that ended a client_job
  dispatched,     \* ghost: how often the job of a client_job was forwarded
  outstanding,    \* ghost: per worker, jobs forwarded minus notices handled
  job_notices,    \* ghost: per job, completion notices sent for it
  job_last,       \* ghost: per job, how its last finished attempt ended:
                  \* "none", "failed" or "2xx"
  nFinished,      \* ghost: completion notices the master has handled
  waited,         \* ghost: how many of the oldest job submissions in the
                  \* master's mailbox were there while it waited; counted
                  \* from the notice that ends the wait, 0 otherwise
  ender,          \* ghost: the sender of that notice while waited > 0
  more,           \* ghost: whether a further notice was handled since
  shutdown_flag,  \* the flag the first signal handler sets
  sa_resethand,   \* whether the sa_flags of act, which main never
                  \* initializes, hold SA_RESETHAND
  sa_handler,     \* the handler installed for the interrupt signal:
                  \* "flag" (sets shutdown_flag) or "abort"
  main_pc,        \* position of main: "poll", "send", "install", "await",
                  \* "done"
  aborted,        \* TRUE once abort() has ended the process
  repeated,       \* ghost: whether an interrupt was delivered after the
                  \* first one
  exit_sent,      \* ghost: exit requests main has sent to the master
  exited,         \* the actors an exit message has terminated
  ub              \* TRUE once a handler ran into undefined behaviour

vars == <<m_idle_worker, m_busy_worker, bhvr_stack, mbox, w_pc, w_cur, m_buf,
          handed, m_count, next_pending, cj_pc, cj_got, dispatched,
          outstanding, job_notices, job_last, nFinished, waited, ender,
          more, shutdown_flag, sa_resethand, sa_handler, main_pc, aborted,
          repeated, exit_sent, exited, ub>>

\* The state of main and of the process.
process == <<shutdown_flag, sa_resethand, sa_handler, main_pc, aborted,
             repeated, exit_sent>>

\* The record of the last wait of the master.
resumed == <<waited, ender, more>>

(***************************************************************************)
(* Sequences (std::vector) and messages.                                   *)
(***************************************************************************)
Back(s) == s[Len(s)]
\* pop_back left out: the vector keeps its last element.
PopBackKeep(s) == s
PopBack(s) == SubSeq(s, 1, Len(s) - 1)
Erase(s, i) == SubSeq(s, 1, i - 1) \o SubSeq(s, i + 1, Len(s))

\* std::find: the first position of x in s, Len(s) + 1 (end()) if there is none.
Find(s, x) ==
  IF \E i \in 1..Len(s) : s[i] = x
  THEN CHOOSE i \in 1..Len(s) : s[i] = x /\ \A k \in 1..(i - 1) : s[k] # x
  ELSE Len(s) + 1

\* All messages share one record shape.  Two fields are ghosts: id names the
\* client_job (by number) whose job the message belongs to, and body holds
\* the bytes the transport handed over in the attempt a reply comes from.
ReadMsg(from, id) ==
  [type |-> "read", sender |-> from, fname |-> Url, offset |-> RangeFirst,
   range |-> RangeLast, payload |-> <<>>, id |-> id, body |-> <<>>]
\* The notice sent with anon_send: it names no sender.
FinishedMsgAnon(from, id) ==
  [type |-> "finished", sender |-> NoActor, fname |-> "", offset |-> 0,
   range |-> 0, payload |-> <<>>, id |-> id, body |-> <<>>]

FinishedMsg(from, id) ==
  [type |-> "finished", sender |-> from, fname |-> "", offset |-> 0,
   range |-> 0, payload |-> <<>>, id |-> id, body |-> <<>>]
\* The handler returns a failure message instead of the reply.
ReplyMsgFail(from, buf, id, body) ==
  [type |-> "fail", sender |-> from, fname |-> "", offset |-> 0,
   range |-> 0, payload |-> <<>>, id |-> id, body |-> body]

ReplyMsg(from, buf, id, body) ==
  [type |-> "reply", sender |-> from, fname |-> "", offset |-> 0,
   range |-> 0, payload |-> buf, id |-> id, body |-> body]
\* The exit message an actor that terminates for the reason user_shutdown
\* sends to the actors linked to it; main sends it as an anonymous sender.
ExitMsg(from) ==
  [type |-> "exit", sender |-> from, fname |-> "", offset |-> 0,
   range |-> 0, payload |-> <<>>, id |-> 0, body |-> <<>>]
NoMsg ==
  [type |-> "none", sender |-> NoActor, fname |-> "", offset |-> 0,
   range |-> 0, payload |-> <<>>, id |-> 0, body |-> <<>>]

(***************************************************************************)
(* The actor runtime: mailboxes and behaviours.                            *)
(***************************************************************************)
\* An actor that has quit, or was never spawned, receives nothing.
Alive(a) ==
  /\ a \notin exited
  /\ a \in ClientJobs => cj_pc[a] \in {"spawned", "waiting"}

\* An actor takes steps while it lives, the process has not been aborted
\* and no handler has run into undefined behaviour.
Runs(a) == ~ub /\ ~aborted /\ Alive(a)

\* send(to, m): m is appended to the mailbox of a living receiver.
Send(mb, to, m) ==
  IF to \in Actors /\ Alive(to) THEN [mb EXCEPT ![to] = Append(@, m)] ELSE mb

\* Position of the first message of q that has one of the types handled,
\* 0 if q holds none: messages no handler matches are skipped and stay.
FirstMatch(q, handled) ==
  IF \E i \in 1..Len(q) : q[i].type \in handled
  THEN CHOOSE i \in 1..Len(q) :
         /\ q[i].type \in handled
         /\ \A k \in 1..(i - 1) : q[k].type \notin handled
  ELSE 0

\* The message an actor takes next: the first one that its behaviour
\* handles or that is an exit message, which the runtime handles itself.
NextMsg(a, handled) == FirstMatch(mbox[a], handled \cup {"exit"})

\* become without keep_behavior: b replaces the behaviours of the stack.
BecomeDiscard(stack, b) == <<b>>

\* become(keep_behavior, b) pushes b; unbecome() pops the active behaviour.
Become(stack, b) == Append(stack, b)
\* unbecome left out: the active behaviour stays.
UnbecomeKeep(stack) == stack

Unbecome(stack) == SubSeq(stack, 1, Len(stack) - 1)
Active(stack) == stack[Len(stack)]

(***************************************************************************)
(* curl_master.                                                            *)
(***************************************************************************)
\* A waiting behaviour that handles read as well.
MasterHandlesAll(b) == {"read", "finished"}

\* The message types the two behaviours of the master handle: the behaviour
\* returned by make_behavior, and the one installed while no worker is idle.
MasterHandles(b) ==
  IF b = "base" THEN {"read", "finished"} ELSE {"finished"}

\* The message forwarded with its range left out.
ForwardWithoutRange(mb, worker, m) ==
  Send(mb, worker, [m EXCEPT !.offset = 0, !.range = 0])

\* forward_to executed twice: the worker gets the message two times.
ForwardTwice(mb, worker, m) == Send(Send(mb, worker, m), worker, m)

\* The message sent anew instead of forwarded: the master is its sender.
ForwardAsSelf(mb, worker, m) == Send(mb, worker, [m EXCEPT !.sender = Master])

\* forward_to(worker): the current message goes to worker as it is, its
\* sender included.
ForwardTo(mb, worker, m) == Send(mb, worker, m)

\* worker_finished that puts the sender in front of the idle workers.
WorkerFinishedPushFront(idle, busy, sender) ==
  LET i == Find(busy, sender)
  IN  IF i > Len(busy)
      THEN [idle |-> idle, busy |-> busy, ub |-> TRUE]
      ELSE [idle |-> <<busy[i]>> \o idle, busy |-> Erase(busy, i),
            ub |-> FALSE]

\* worker_finished that frees the first busy worker, whoever the sender is.
WorkerFinishedFirst(idle, busy, sender) ==
  IF busy = <<>>
  THEN [idle |-> idle, busy |-> busy, ub |-> TRUE]
  ELSE [idle |-> Append(idle, busy[1]), busy |-> Erase(busy, 1), ub |-> FALSE]

\* worker_finished without the erase: the sender stays in m_busy_worker.
WorkerFinishedNoErase(idle, busy, sender) ==
  LET i == Find(busy, sender)
  IN  IF i > Len(busy)
      THEN [idle |-> idle, busy |-> busy, ub |-> TRUE]
      ELSE [idle |-> Append(idle, busy[i]), busy |-> busy, ub |-> FALSE]

\* worker_finished that frees the last busy worker, whoever the sender is.
WorkerFinishedLast(idle, busy, sender) ==
  IF busy = <<>>
  THEN [idle |-> idle, busy |-> busy, ub |-> TRUE]
  ELSE [idle |-> Append(idle, Back(busy)), busy |-> PopBack(busy),
        ub |-> FALSE]

\* The lambda worker_finished: the sender moves from busy to idle.  When
\* the sender is not in m_busy_worker, *i dereferences end().
WorkerFinished(idle, busy, sender) ==
  LET i == Find(busy, sender)
  IN  IF i > Len(busy)
      THEN [idle |-> idle, busy |-> busy, ub |-> TRUE]
      ELSE [idle |-> Append(idle, busy[i]), busy |-> Erase(busy, i),
            ub |-> FALSE]

\* The first idle worker picked instead of the last.
PickFront(idle) == idle[1]

\* The idle worker a job is forwarded to.
PickWorker(idle) == Back(idle)

\* A spawn loop that stops one worker short.
SpawnWorkersButOne == [i \in 1..(num_curl_workers - 1) |-> Worker(i)]

\* The spawn loop of make_behavior: m_idle_worker once the master has
\* spawned its num_curl_workers workers.
SpawnWorkers == [i \in 1..num_curl_workers |-> Worker(i)]

\* The waiting behaviour installed one dispatch early.
MustWaitEarly(idle) == Len(idle) <= 1

\* The check of m_idle_worker.empty() left out.
MustWaitNever(idle) == FALSE

\* Whether the master installs the waiting behaviour after a dispatch.
MustWait(idle) == idle = <<>>

MasterNext(handled) == NextMsg(Master, handled)

\* The job submissions in a mailbox.
NumReads(q) == Len(SelectSeq(q, LAMBDA m : m.type = "read"))

\* Handler of (read_atom, fname, offset, range).
MasterRead ==
  /\ Runs(Master)
  /\ LET i == MasterNext(MasterHandles(Active(bhvr_stack)))
     IN  /\ i > 0
         /\ mbox[Master][i].type = "read"
         /\ LET m == mbox[Master][i]
                rest == [mbox EXCEPT ![Master] = Erase(@, i)]
            IN  IF m_idle_worker = <<>>
                THEN \* back() of an empty vector
                     /\ ub' = TRUE
                     /\ mbox' = rest
                     /\ UNCHANGED <<m_idle_worker, m_busy_worker, bhvr_stack,
                                    dispatched, outstanding, resumed>>
                ELSE LET worker == PickWorker(m_idle_worker)
                         idle2 == PopBack(m_idle_worker)
                     IN  /\ m_idle_worker' = idle2
                         /\ m_busy_worker' = Append(m_busy_worker, worker)
                         /\ mbox' = ForwardTo(rest, worker, m)
                         /\ bhvr_stack' = IF MustWait(idle2)
                                          THEN Become(bhvr_stack, "wait")
                                          ELSE bhvr_stack
                         /\ dispatched' = [dispatched EXCEPT ![m.id] = @ + 1]
                         /\ outstanding' = [outstanding EXCEPT ![worker] = @ + 1]
                         /\ IF MustWait(idle2) \/ waited <= 1
                            THEN waited' = 0 /\ ender' = NoActor /\ more' = FALSE
                            ELSE waited' = waited - 1 /\ UNCHANGED <<ender, more>>
                         /\ ub' = FALSE
  /\ UNCHANGED <<w_pc, w_cur, m_buf, handed, m_count, next_pending, cj_pc,
                 cj_got, job_notices, job_last, nFinished>>
  /\ UNCHANGED <<process, exited>>

\* Handler of (finished_atom), in either behaviour.
MasterFinished ==
  /\ Runs(Master)
  /\ LET b == Active(bhvr_stack)
         i == MasterNext(MasterHandles(b))
     IN  /\ i > 0
         /\ mbox[Master][i].type = "finished"
         /\ LET m == mbox[Master][i]
                r == WorkerFinished(m_idle_worker, m_busy_worker, m.sender)
            IN  /\ m_idle_worker' = r.idle
                /\ m_busy_worker' = r.busy
                /\ ub' = r.ub
                /\ mbox' = [mbox EXCEPT ![Master] = Erase(@, i)]
                /\ bhvr_stack' = IF b = "wait" THEN Unbecome(bhvr_stack)
                                 ELSE bhvr_stack
                /\ outstanding' = IF m.sender \in Workers
                                  THEN [outstanding EXCEPT ![m.sender] = @ - 1]
                                  ELSE outstanding
                /\ IF b = "wait"
                   THEN LET n == NumReads(mbox[Master])
                        IN  /\ waited' = n
                            /\ ender' = IF n > 0 THEN m.sender ELSE NoActor
                            /\ more' = FALSE
                   ELSE /\ more' = (waited > 0)
                        /\ UNCHANGED <<waited, ender>>
  /\ nFinished' = nFinished + 1
  /\ UNCHANGED <<w_pc, w_cur, m_buf, handed, m_count, next_pending, cj_pc,
                 cj_got, dispatched, job_notices, job_last>>
  /\ UNCHANGED <<process, exited>>

(***************************************************************************)
(* The transport (libcurl) as the worker sees it.                          *)
(***************************************************************************)
\* What curl_easy_perform and CURLINFO_RESPONSE_CODE can report.
Outcomes ==
  {[res |-> "CURLE_COULDNT_CONNECT", hc |-> 0]} \cup
  {[res |-> "CURLE_OK", hc |-> h] :
     h \in {HttpOk, HttpPartial, HttpNotFound, HttpOther}}

\* The bytes of the response body after the first pos ones: byte k of a
\* body is the number k.
Data(pos, size) == [k \in 1..size |-> pos + k]

\* The block shapes the transport calls the write callback with.
Shapes == {[bsize |-> b, nmemb |-> n] : b \in 1..MaxBody, n \in 1..MaxBody}

(***************************************************************************)
(* curl_worker.                                                            *)
(***************************************************************************)
WorkerHandles == {"read"}

\* curl_worker::cb: the buffer after the callback has run on data, a block
\* of bsize * nmemb bytes.
Cb(buf, data, bsize, nmemb) == buf \o SubSeq(data, 1, bsize)

\* The value cb returns: the number of bytes it reports as consumed.
CbReturn(bsize, nmemb) == bsize * nmemb

\* The clear left out: the buffer keeps what it holds.
ClearBufKeep(buf) == buf

\* m_buf.clear() at the top of the retry loop.
ClearBuf(buf) == <<>>

\* The switch with 404 treated like 200: the worker gives the job up.
AttemptResultNotFoundDone(res, hc) ==
  IF res # "CURLE_OK" THEN "retry"
  ELSE IF hc = HttpOk \/ hc = HttpPartial \/ hc = HttpNotFound THEN "done"
  ELSE "retry"

\* The test of res inverted: a transport error counts as success.
AttemptResultErrorDone(res, hc) ==
  IF res # "CURLE_OK" THEN "done" ELSE "retry"

\* The default case treated like 200: any HTTP status ends the job.
AttemptResultAnyStatusDone(res, hc) ==
  IF res # "CURLE_OK" THEN "retry" ELSE "done"

\* What the loop body does with the result of an attempt: "done" sends the
\* notice and returns the reply, "retry" sleeps and runs the loop again.
AttemptResult(res, hc) ==
  IF res # "CURLE_OK" THEN "retry"
  ELSE IF hc = HttpOk \/ hc = HttpPartial THEN "done"
  ELSE IF hc = HttpNotFound THEN "retry"
  ELSE "retry"

\* An actor that takes a message while a handler of its runs.
InHandlerNever(a) == FALSE

\* Whether an actor is inside a message handler: the read handler of a
\* worker runs from the receipt of the job to the return of the reply; an
\* actor takes no message meanwhile.
InHandler(a) == a \in Workers /\ w_pc[a] # "idle"

\* The worker takes a read message from its mailbox and enters the loop.
WorkerReceive(w) ==
  /\ Runs(w)
  /\ ~InHandler(w)
  /\ LET i == NextMsg(w, WorkerHandles)
     IN  /\ i > 0
         /\ mbox[w][i].type \in WorkerHandles
         /\ w_cur' = [w_cur EXCEPT ![w] = mbox[w][i]]
         /\ mbox' = [mbox EXCEPT ![w] = Erase(@, i)]
  /\ w_pc' = [w_pc EXCEPT ![w] = "loop"]
  /\ UNCHANGED <<m_idle_worker, m_busy_worker, bhvr_stack, m_buf, handed,
                 m_count, next_pending, cj_pc, cj_got, dispatched,
                 outstanding, job_notices, job_last, nFinished, ub>>
  /\ UNCHANGED resumed
  /\ UNCHANGED <<process, exited>>

\* Top of the loop, reached from the receipt of the message or from the
\* sleep that ends a failed attempt: the buffer is cleared, the request is
\* set up from the message, and curl_easy_perform is entered.
WorkerBeginAttempt(w) ==
  /\ Runs(w)
  /\ w_pc[w] \in {"loop", "sleep"}
  /\ m_buf' = [m_buf EXCEPT ![w] = ClearBuf(@)]
  /\ handed' = [handed EXCEPT ![w] = <<>>]
  /\ w_pc' = [w_pc EXCEPT ![w] = "perform"]
  /\ UNCHANGED <<m_idle_worker, m_busy_worker, bhvr_stack, mbox, w_cur,
                 m_count, next_pending, cj_pc, cj_got, dispatched,
                 outstanding, job_notices, job_last, nFinished, ub>>
  /\ UNCHANGED resumed
  /\ UNCHANGED <<process, exited>>

\* Inside curl_easy_perform: the transport hands the next block of the
\* body to the write callback.
TransportWrite(w) ==
  /\ Runs(w)
  /\ w_pc[w] = "perform"
  /\ \E sh \in Shapes :
       LET size == sh.bsize * sh.nmemb
           data == Data(Len(handed[w]), size)
       IN  /\ Len(handed[w]) + size <= MaxBody
           /\ m_buf' = [m_buf EXCEPT ![w] = Cb(@, data, sh.bsize, sh.nmemb)]
           /\ handed' = [handed EXCEPT ![w] = @ \o data]
  /\ UNCHANGED <<m_idle_worker, m_busy_worker, bhvr_stack, mbox, w_pc, w_cur,
                 m_count, next_pending, cj_pc, cj_got, dispatched,
                 outstanding, job_notices, job_last, nFinished, ub>>
  /\ UNCHANGED resumed
  /\ UNCHANGED <<process, exited>>

\* A loop body that ends the job after every attempt, whatever its outcome.
AttemptEndAlwaysDone(o) ==
  [ok |-> o.res = "CURLE_OK" /\ o.hc \in {HttpOk, HttpPartial},
   result |-> "done"]

\* How an attempt with outcome o ends: whether it obtained 200 or 206, and
\* what the loop body does with it.
AttemptEnd(o) ==
  [ok |-> o.res = "CURLE_OK" /\ o.hc \in {HttpOk, HttpPartial},
   result |-> AttemptResult(o.res, o.hc)]

\* curl_easy_perform returns.  On 200/206 the notice goes to m_parent and
\* the handler is about to return its reply; otherwise the worker sleeps
\* before it runs the loop again.
WorkerAttemptEnds(w) ==
  /\ Runs(w)
  /\ w_pc[w] = "perform"
  /\ \E e \in {AttemptEnd(o) : o \in Outcomes} :
       LET id == w_cur[w].id
       IN  /\ job_last' = [job_last EXCEPT ![id] =
                            IF e.ok THEN "2xx" ELSE "failed"]
           /\ IF e.result = "done"
              THEN /\ mbox' = Send(mbox, Master, FinishedMsg(w, id))
                   /\ job_notices' = [job_notices EXCEPT ![id] = @ + 1]
                   /\ w_pc' = [w_pc EXCEPT ![w] = "notified"]
                   /\ UNCHANGED handed
              ELSE /\ w_pc' = [w_pc EXCEPT ![w] = "sleep"]
                   /\ handed' = [handed EXCEPT ![w] = <<>>]
                   /\ UNCHANGED <<mbox, job_notices>>
  /\ UNCHANGED <<m_idle_worker, m_busy_worker, bhvr_stack, w_cur, m_buf,
                 m_count, next_pending, cj_pc, cj_got, dispatched,
                 outstanding, nFinished, ub>>
  /\ UNCHANGED resumed
  /\ UNCHANGED <<process, exited>>

\* The handler returns make_message(reply_atom, m_buf): the runtime sends
\* it to the sender of the message the handler ran on.
WorkerReply(w) ==
  /\ Runs(w)
  /\ w_pc[w] = "notified"
  /\ mbox' = Send(mbox, w_cur[w].sender, ReplyMsg(w, m_buf[w], w_cur[w].id, handed[w]))
  /\ w_pc' = [w_pc EXCEPT ![w] = "idle"]
  /\ w_cur' = [w_cur EXCEPT ![w] = NoMsg]
  /\ handed' = [handed EXCEPT ![w] = <<>>]
  /\ UNCHANGED <<m_idle_worker, m_busy_worker, bhvr_stack, m_buf,
                 m_count, next_pending, cj_pc, cj_got, dispatched,
                 outstanding, job_notices, job_last, nFinished, ub>>
  /\ UNCHANGED resumed
  /\ UNCHANGED <<process, exited>>

(***************************************************************************)
(* client and client_job.                                                  *)
(***************************************************************************)
ClientJobHandles == {"reply", "fail"}

\* A handler that schedules no further tick.
NoDelayedSend(n) == n

\* delayed_send(this, milliseconds(delay), next_atom::value): one more
\* next message is on its way to the client.
DelayedSend(n) == n + 1

\* Handler of (next_atom): one client_job is spawned and the next tick is
\* scheduled.
ClientTick(limit) ==
  /\ Runs(Client)
  /\ next_pending > 0
  /\ m_count < limit
  /\ m_count' = m_count + 1
  /\ cj_pc' = [cj_pc EXCEPT ![ClientJob(m_count + 1)] = "spawned"]
  /\ next_pending' = DelayedSend(next_pending - 1)
  /\ UNCHANGED <<m_idle_worker, m_busy_worker, bhvr_stack, mbox, w_pc, w_cur,
                 m_buf, handed, cj_got, dispatched, outstanding, job_notices,
                 job_last, nFinished, ub>>
  /\ UNCHANGED resumed
  /\ UNCHANGED <<process, exited>>

ClientNext == ClientTick(MaxJobs)

\* client_job::make_behavior: the job is sent to m_parent, the master.
ClientJobInit(c) ==
  /\ Runs(c)
  /\ cj_pc[c] = "spawned"
  /\ mbox' = Send(mbox, Master, ReadMsg(c, c[2]))
  /\ cj_pc' = [cj_pc EXCEPT ![c] = "waiting"]
  /\ UNCHANGED <<m_idle_worker, m_busy_worker, bhvr_stack, w_pc, w_cur, m_buf,
                 handed, m_count, next_pending, cj_got, dispatched,
                 outstanding, job_notices, job_last, nFinished, ub>>
  /\ UNCHANGED resumed
  /\ UNCHANGED <<process, exited>>

\* Handlers that return without quit(): the client_job goes on waiting.
ClientJobStays == "waiting"

\* quit(): the state of a client_job after its reply or fail handler.
ClientJobQuit == "done"

\* Every exit reason taken for a failure.
ExitKillsAlways(reason) == TRUE

\* Whether the exit message of a linked actor that terminated for the
\* given reason terminates its receiver: one with a normal reason is
\* dropped.
ExitKills(reason) == reason # "normal"

\* quit() without an argument: the exit reason is normal.
QuitReason == "normal"

\* Handlers of (reply_atom, buf) and (fail_atom): both quit.  The client
\* job is linked to the client, which is told why it terminated.
ClientJobHandle(c) ==
  /\ Runs(c)
  /\ cj_pc[c] = "waiting"
  /\ LET i == NextMsg(c, ClientJobHandles)
     IN  /\ i > 0
         /\ mbox[c][i].type \in ClientJobHandles
         /\ cj_got' = [cj_got EXCEPT ![c] = mbox[c][i]]
  /\ mbox' = LET mb == [mbox EXCEPT ![c] = <<>>]
             IN  IF ExitKills(QuitReason) /\ Alive(Client)
                 THEN [mb EXCEPT ![Client] = Append(@, ExitMsg(c))]
                 ELSE mb
  /\ cj_pc' = [cj_pc EXCEPT ![c] = ClientJobQuit]
  /\ UNCHANGED <<m_idle_worker, m_busy_worker, bhvr_stack, w_pc, w_cur, m_buf,
                 handed, m_count, next_pending, dispatched, outstanding,
                 job_notices, job_last, nFinished, ub>>
  /\ UNCHANGED resumed
  /\ UNCHANGED <<process, exited>>

(***************************************************************************)
(* Links, exit messages and main.                                          *)
(***************************************************************************)
\* The master is linked to no worker.
LinksNoWorkers(a) ==
  IF a = Master THEN {Client}
  ELSE IF a \in Workers THEN {}
  ELSE IF a = Client
  THEN {Master} \cup {c \in ClientJobs : cj_pc[c] # "none"}
  ELSE {Client}

\* The actors linked to a: the master spawns its workers linked, the client
\* links itself to the master and spawns its client jobs linked.
Links(a) ==
  IF a = Master THEN Workers \cup {Client}
  ELSE IF a \in Workers THEN {Master}
  ELSE IF a = Client
  THEN {Master} \cup {c \in ClientJobs : cj_pc[c] # "none"}
  ELSE {Client}

\* The message types the behaviour of an actor handles between handlers.
Handles(a) ==
  IF a = Master THEN MasterHandles(Active(bhvr_stack))
  ELSE IF a \in Workers THEN WorkerHandles
  ELSE IF a \in ClientJobs THEN ClientJobHandles
  ELSE {}

\* An actor that is not inside a handler takes an exit message from its
\* mailbox: it terminates, and an exit message goes to every living actor
\* linked to it.
ActorExit(a) ==
  /\ Runs(a)
  /\ a \in ClientJobs => cj_pc[a] \in {"spawned", "waiting"}
  /\ ~InHandler(a)
  /\ LET i == NextMsg(a, Handles(a))
     IN  i > 0 /\ mbox[a][i].type = "exit"
  /\ exited' = exited \cup {a}
  /\ mbox' = [b \in Actors |->
               IF b = a THEN <<>>
               ELSE IF b \in Links(a) /\ Alive(b)
               THEN Append(mbox[b], ExitMsg(a))
               ELSE mbox[b]]
  /\ cj_pc' = IF a \in ClientJobs THEN [cj_pc EXCEPT ![a] = "killed"]
              ELSE cj_pc
  /\ UNCHANGED <<m_idle_worker, m_busy_worker, bhvr_stack, w_pc, w_cur, m_buf,
                 handed, m_count, next_pending, cj_got, dispatched,
                 outstanding, job_notices, job_last, nFinished, resumed,
                 process, ub>>

\* An actor terminates abnormally for a reason of its own, an exception in
\* a handler for one, inside a handler or outside: an exit message goes to
\* every living actor linked to it.  The model lets one actor fail so; the
\* others terminate by the exit messages that follow.
ActorFails(a) ==
  /\ Runs(a)
  /\ a \in {Master, Client} \cup Workers
  /\ exited = {}
  /\ exited' = exited \cup {a}
  /\ mbox' = [b \in Actors |->
               IF b = a THEN <<>>
               ELSE IF b \in Links(a) /\ Alive(b)
               THEN Append(mbox[b], ExitMsg(a))
               ELSE mbox[b]]
  /\ UNCHANGED <<m_idle_worker, m_busy_worker, bhvr_stack, w_pc, w_cur, m_buf,
                 handed, m_count, next_pending, cj_pc, cj_got, dispatched,
                 outstanding, job_notices, job_last, nFinished, resumed,
                 process, ub>>

\* What main and the actors keep when a signal arrives or main moves on.
actors == <<m_idle_worker, m_busy_worker, bhvr_stack, w_pc, w_cur, m_buf,
            handed, m_count, next_pending, cj_pc, cj_got, dispatched,
            outstanding, job_notices, job_last, nFinished, resumed, exited,
            ub>>

\* The user sends an interrupt signal.  The first handler sets the flag;
\* the second calls abort(); the default action ends the process as well.
Interrupt ==
  /\ ~aborted
  /\ main_pc # "done"
  /\ repeated' = shutdown_flag
  /\ IF sa_handler = "flag"
     THEN /\ shutdown_flag' = TRUE
          /\ sa_handler' = IF sa_resethand THEN "default" ELSE "flag"
          /\ UNCHANGED aborted
     ELSE /\ aborted' = TRUE
          /\ UNCHANGED <<shutdown_flag, sa_handler>>
  /\ UNCHANGED <<actors, mbox, sa_resethand, main_pc, exit_sent>>

\* A main that sends the exit request inside its polling loop.
MainAfterInLoop(pc) ==
  IF pc = "poll" THEN "send"
  ELSE IF pc = "send" THEN "poll"
  ELSE IF pc = "install" THEN "await"
  ELSE "done"

\* The statements of main in their order: the polling loop, the exit
\* request, the second handler, the wait.
MainAfter(pc) ==
  IF pc = "poll" THEN "send"
  ELSE IF pc = "send" THEN "install"
  ELSE IF pc = "install" THEN "await"
  ELSE "done"

\* main leaves its polling loop once the flag is set.
MainPoll ==
  /\ ~aborted
  /\ main_pc = "poll"
  /\ shutdown_flag
  /\ main_pc' = MainAfter(main_pc)
  /\ UNCHANGED <<actors, repeated, mbox, shutdown_flag, sa_resethand, sa_handler,
                 aborted, exit_sent>>

\* anon_send_exit(master, exit_reason::user_shutdown).
MainSendExit ==
  /\ ~aborted
  /\ main_pc = "send"
  /\ mbox' = Send(mbox, Master, ExitMsg(NoActor))
  /\ exit_sent' = exit_sent + 1
  /\ main_pc' = MainAfter(main_pc)
  /\ UNCHANGED <<actors, repeated, shutdown_flag, sa_resethand, sa_handler, aborted>>

\* The first handler installed again.
SecondHandlerFlag == "flag"

\* The handler main installs before it waits for the actors.
SecondHandler == "abort"

\* act.sa_handler = abort; set_sighandler().
MainInstallAbort ==
  /\ ~aborted
  /\ main_pc = "install"
  /\ sa_handler' = SecondHandler
  /\ main_pc' = MainAfter(main_pc)
  /\ UNCHANGED <<actors, repeated, mbox, shutdown_flag, sa_resethand, aborted,
                 exit_sent>>

\* An actor has terminated: an exit message has terminated it, or it is a
\* client_job that has quit.
Terminated(a) == a \in exited \/ (a \in ClientJobs /\ cj_pc[a] = "done")

\* The actors that were spawned.
Spawned == {Master, Client} \cup Workers \cup
           {c \in ClientJobs : cj_pc[c] # "none"}

\* await_all_other_actors_done() returns.
MainAwait ==
  /\ ~aborted
  /\ main_pc = "await"
  /\ \A a \in Spawned : Terminated(a)
  /\ main_pc' = MainAfter(main_pc)
  /\ UNCHANGED <<actors, repeated, mbox, shutdown_flag, sa_resethand, sa_handler,
                 aborted, exit_sent>>

(***************************************************************************)
(* The system.                                                             *)
(***************************************************************************)
\* The state once main has installed its signal handler and spawned master
\* and client, the master has spawned its workers and the client has sent
\* itself the first tick.
Start ==
  /\ m_idle_worker = SpawnWorkers
  /\ m_busy_worker = <<>>
  /\ bhvr_stack = <<"base">>
  /\ mbox = [a \in Actors |-> <<>>]
  /\ w_pc = [w \in Workers |-> "idle"]
  /\ w_cur = [w \in Workers |-> NoMsg]
  /\ m_buf = [w \in Workers |-> <<>>]
  /\ handed = [w \in Workers |-> <<>>]
  /\ m_count = 0
  /\ next_pending = 1
  /\ cj_pc = [c \in ClientJobs |-> "none"]
  /\ cj_got = [c \in ClientJobs |-> NoMsg]
  /\ dispatched = [j \in 1..MaxJobs |-> 0]
  /\ outstanding = [w \in Workers |-> 0]
  /\ job_notices = [j \in 1..MaxJobs |-> 0]
  /\ job_last = [j \in 1..MaxJobs |-> "none"]
  /\ nFinished = 0
  /\ waited = 0
  /\ ender = NoActor
  /\ more = FALSE
  /\ shutdown_flag = FALSE
  /\ sa_handler = "flag"
  /\ main_pc = "poll"
  /\ aborted = FALSE
  /\ repeated = FALSE
  /\ exit_sent = 0
  /\ exited = {}
  /\ ub = FALSE

\* No interrupt is delivered in Spec and in SpecTransfer, where the flags
\* of the signal handler play no part.
Init == Start /\ sa_resethand = FALSE

\* The system with a transport whose responses carry no body: the write
\* callback is never called.
Next ==
  \/ MasterRead
  \/ MasterFinished
  \/ \E w \in Workers : WorkerReceive(w)
  \/ \E w \in Workers : WorkerBeginAttempt(w)
  \/ \E w \in Workers : WorkerAttemptEnds(w)
  \/ \E w \in Workers : WorkerReply(w)
  \/ ClientNext
  \/ \E c \in ClientJobs : ClientJobInit(c)
  \/ \E c \in ClientJobs : ClientJobHandle(c)

Spec == Init /\ [][Next]_vars

\* The system with response bodies of up to MaxBody bytes, handed to the
\* write callback in blocks of every shape, under a slow client: a tick
\* arrives only once the client jobs spawned before have quit, and there are
\* MaxTransferJobs ticks.
ClientNextTransfer ==
  /\ \A c \in ClientJobs : cj_pc[c] \in {"none", "done"}
  /\ ClientTick(MaxTransferJobs)

NextTransfer ==
  \/ MasterRead
  \/ MasterFinished
  \/ \E w \in Workers : WorkerReceive(w)
  \/ \E w \in Workers : WorkerBeginAttempt(w)
  \/ \E w \in Workers : TransportWrite(w)
  \/ \E w \in Workers : WorkerAttemptEnds(w)
  \/ \E w \in Workers : WorkerReply(w)
  \/ ClientNextTransfer
  \/ \E c \in ClientJobs : ClientJobInit(c)
  \/ \E c \in ClientJobs : ClientJobHandle(c)

SpecTransfer == Init /\ [][NextTransfer]_vars

\* The system with the user at the keyboard: interrupt signals arrive at
\* any time, any number of them, and the client gets MaxShutdownJobs ticks.
\* The flags of the signal handler are any value.
InitShutdown == Start /\ sa_resethand \in BOOLEAN

ClientNextShutdown == ClientTick(MaxShutdownJobs)

ActorsNext ==
  \/ MasterRead
  \/ MasterFinished
  \/ \E w \in Workers : WorkerReceive(w)
  \/ \E w \in Workers : WorkerBeginAttempt(w)
  \/ \E w \in Workers : WorkerAttemptEnds(w)
  \/ \E w \in Workers : WorkerReply(w)
  \/ \E c \in ClientJobs : ClientJobInit(c)
  \/ \E c \in ClientJobs : ClientJobHandle(c)
  \/ \E a \in Actors : ActorExit(a)

MainNext == MainPoll \/ MainSendExit \/ MainInstallAbort \/ MainAwait

NextShutdown == ActorsNext \/ ClientNextShutdown \/ MainNext \/ Interrupt

SpecShutdown == InitShutdown /\ [][NextShutdown]_vars

\* The steps of each thread: every actor is spawned detached.
MasterSteps == MasterRead \/ MasterFinished \/ ActorExit(Master)
WorkerSteps(w) ==
  \/ WorkerReceive(w)
  \/ WorkerBeginAttempt(w)
  \/ WorkerAttemptEnds(w)
  \/ WorkerReply(w)
  \/ ActorExit(w)
ClientJobSteps(c) == ClientJobInit(c) \/ ClientJobHandle(c) \/ ActorExit(c)

\* The steps of main, of the master, of the client jobs and the exit of
\* the client: none of these threads can take steps for ever, so that a
\* step of theirs that can be taken is taken.
OtherSteps ==
  \/ MainNext
  \/ MasterSteps
  \/ ActorExit(Client)
  \/ \E c \in ClientJobs : ClientJobSteps(c)

\* Every actor runs in a thread of its own and main in the main thread:
\* each takes the step it can take.  Nothing obliges the user to send a
\* signal or the transport to answer with 200.
FairShutdown ==
  /\ SpecShutdown
  /\ WF_vars(OtherSteps)
  /\ \A w \in Workers : WF_vars(WorkerSteps(w))

\* The system under an orderly client: a tick is handled only once the
\* client jobs spawned before have submitted their jobs, so that the jobs
\* reach the master in the order of their spawning.  The client jobs are
\* alike and a tick touches nothing but the client, so that master and
\* workers see, up to the names of the client jobs, what they see under any
\* client.
ClientNextOrdered ==
  /\ \A c \in ClientJobs : cj_pc[c] # "spawned"
  /\ ClientTick(MaxJobs)

NextOrdered ==
  \/ MasterRead
  \/ MasterFinished
  \/ \E w \in Workers : WorkerReceive(w)
  \/ \E w \in Workers : WorkerBeginAttempt(w)
  \/ \E w \in Workers : WorkerAttemptEnds(w)
  \/ \E w \in Workers : WorkerReply(w)
  \/ ClientNextOrdered
  \/ \E c \in ClientJobs : ClientJobInit(c)
  \/ \E c \in ClientJobs : ClientJobHandle(c)

SpecOrdered == Init /\ [][NextOrdered]_vars

\* The same under fair scheduling: the master, the client, every client
\* job and every worker run in threads of their own, and each takes the
\* step it can take.  The steps of the master, of the client and of the
\* client jobs are finitely many, so that one condition serves them all.
\* Nothing obliges the transport to answer with 200.
FairOrdered ==
  /\ SpecOrdered
  /\ WF_vars(\/ MasterSteps
             \/ ClientNextOrdered
             \/ \E c \in ClientJobs : ClientJobSteps(c))
  /\ \A w \in Workers : WF_vars(WorkerSteps(w))

\* The system in which an actor fails: the master, the client or a worker
\* may terminate abnormally at any time, and the client gets
\* MaxShutdownJobs ticks.  No signal arrives.
NextFailure ==
  \/ ActorsNext
  \/ ClientNextShutdown
  \/ \E a \in Actors : ActorFails(a)

SpecFailure == Init /\ [][NextFailure]_vars

\* The same under fair scheduling of the threads of the actors.  Nothing
\* obliges an actor to fail or the transport to answer with 200.
FairFailure ==
  /\ SpecFailure
  /\ WF_vars(\/ MasterSteps
             \/ ActorExit(Client)
             \/ \E c \in ClientJobs : ClientJobSteps(c))
  /\ \A w \in Workers : WF_vars(WorkerSteps(w))

(***************************************************************************)
(* Properties.                                                             *)
(***************************************************************************)
Range(s) == {s[i] : i \in 1..Len(s)}
NoDuplicates(s) == \A i, k \in 1..Len(s) : s[i] = s[k] => i = k
Count(q, type) == Cardinality({i \in 1..Len(q) : q[i].type = type})
Accepting == Active(bhvr_stack) = "base"
Saturated == Active(bhvr_stack) = "wait"

\* Number of jobs the master has forwarded so far.
RECURSIVE SumTo(_, _)
SumTo(f, n) == IF n = 0 THEN 0 ELSE f[n] + SumTo(f, n - 1)
NDispatched == SumTo(dispatched, MaxJobs)

\* C1: in every reachable state the idle list and the busy list are
\* disjoint, hold no worker twice, and together hold exactly the workers
\* spawned at startup, so |idle| + |busy| = num_curl_workers.
C1_PoolInvariant ==
  /\ Range(m_idle_worker) \cap Range(m_busy_worker) = {}
  /\ NoDuplicates(m_idle_worker)
  /\ NoDuplicates(m_busy_worker)
  /\ Range(m_idle_worker) \cup Range(m_busy_worker) = Workers
  /\ Len(m_idle_worker) + Len(m_busy_worker) = num_curl_workers

\* A completion notice has been handled while another worker is still busy
\* and a job has been dispatched since.
C1_Witness ==
  /\ nFinished >= 1
  /\ m_busy_worker # <<>>
  /\ m_idle_worker # <<>>
  /\ NDispatched >= 2

\* Jobs a worker holds: read messages in its mailbox, plus the one whose
\* handler it is executing.
Held(w) == Count(mbox[w], "read") + (IF w_pc[w] = "idle" THEN 0 ELSE 1)

\* C2 as stated: every worker holds at most one job in every reachable
\* state, the window between its completion notice and its reply included.
C2_AtMostOneJobAlways == \A w \in Workers : Held(w) <= 1

\* C2, amended: a worker holds at most one job up to the moment it sends
\* its completion notice; from the notice until the reply is returned one
\* more job, and no more than one, may wait in its mailbox.
C2_AtMostOneJobUntilNotice ==
  \A w \in Workers :
    /\ w_pc[w] # "notified" => Held(w) <= 1
    /\ w_pc[w] = "notified" => Count(mbox[w], "read") <= 1

\* A worker has sent its notice, has not returned its reply yet, and the
\* next job is in its mailbox already.
C2_Witness ==
  \E w \in Workers : w_pc[w] = "notified" /\ Count(mbox[w], "read") = 1

\* C3, on the states: a worker has at most one job forwarded to it whose
\* completion notice the master has not handled; it is in the busy list
\* exactly while it has one and in the idle list exactly while it has none.
C3_Outstanding ==
  \A w \in Workers :
    /\ outstanding[w] \in {0, 1}
    /\ outstanding[w] = 1 <=> w \in Range(m_busy_worker)
    /\ outstanding[w] = 0 <=> w \in Range(m_idle_worker)

\* C3, on the steps: a step that forwards a job to a worker takes that
\* worker out of the idle list and puts it into the busy list.
C3_DispatchStep ==
  \A w \in Workers :
    outstanding'[w] > outstanding[w] =>
      /\ w \in Range(m_idle_worker)
      /\ w \notin Range(m_busy_worker)
      /\ w \notin Range(m_idle_worker')
      /\ w \in Range(m_busy_worker')
      /\ Count(mbox'[w], "read") = Count(mbox[w], "read") + 1

\* C3: the master never dispatches a job to a worker of its busy list,
\* and between a dispatch to a worker and the handling of that worker's next
\* completion notice no other job is forwarded to it.
C3_DispatchOnlyToIdle == [](~ub /\ C3_Outstanding) /\ [][C3_DispatchStep]_vars

\* A worker is dispatched a second job after its first notice was handled,
\* while another worker is busy.
C3_Witness ==
  /\ nFinished >= 1
  /\ \E w \in Workers :
       /\ outstanding[w] = 1
       /\ Count(mbox[w], "read") = 1
       /\ w_pc[w] \in {"idle", "notified"}
  /\ Len(m_busy_worker) = 2

ReadsAtMaster == Count(mbox[Master], "read")

\* C4: the master never has more than num_curl_workers jobs dispatched
\* and not completed; while it has handled no completion notice it
\* dispatches exactly num_curl_workers jobs, one per worker, and a further
\* submission waits in the mailbox until a completion notice is handled.
C4_Backpressure ==
  /\ ~ub
  /\ NDispatched <= num_curl_workers + nFinished
  /\ Len(m_busy_worker) = NDispatched - nFinished
  /\ (nFinished = 0 /\ Saturated) =>
       /\ NDispatched = num_curl_workers
       /\ \A w \in Workers : outstanding[w] = 1
  /\ (ReadsAtMaster > 0 /\ NDispatched - nFinished < num_curl_workers) =>
       Accepting

\* All workers were idle, num_curl_workers + 1 submissions have reached the
\* master, no notice has been handled: one submission waits.
C4_Witness ==
  /\ nFinished = 0
  /\ NDispatched = num_curl_workers
  /\ ReadsAtMaster >= 1
  /\ Saturated

\* C5: a reply is delivered to the client_job that submitted the job and
\* to no other actor, with any number of client jobs in flight: every reply
\* in a mailbox is in the mailbox of its submitter, a client_job ends on
\* the reply to its own job, and a reply that was sent is not lost.
C5_ReplyToSubmitter ==
  /\ \A a \in Actors : \A i \in 1..Len(mbox[a]) :
       mbox[a][i].type = "reply" => a = ClientJob(mbox[a][i].id)
  /\ \A c \in ClientJobs :
       cj_got[c].type = "reply" => cj_got[c].id = c[2] /\ cj_pc[c] = "done"
  /\ \A j \in 1..MaxJobs :
       (job_last[j] = "2xx" /\ \A w \in Workers : w_cur[w].id # j) =>
         \/ Count(mbox[ClientJob(j)], "reply") = 1
         \/ cj_got[ClientJob(j)].type = "reply"

\* Replies to two client jobs are in their mailboxes at the same time.
C5_Witness ==
  \E c1, c2 \in ClientJobs :
    /\ c1 # c2
    /\ Count(mbox[c1], "reply") = 1
    /\ Count(mbox[c2], "reply") = 1

\* The reply messages that exist: those in mailboxes and those client jobs
\* ended on.
Replies ==
  UNION {Range(mbox[a]) : a \in Actors} \cup
  {cj_got[c] : c \in ClientJobs}

\* C6: the payload of a reply is the concatenation, in order, of all bytes
\* the transport handed to the write callback during the successful
\* attempt, for blocks of every size and count: during and after an
\* attempt the buffer holds every byte handed over so far.
C6_PayloadIsWhatWasHanded ==
  /\ \A w \in Workers :
       w_pc[w] \in {"perform", "notified"} => m_buf[w] = handed[w]
  /\ \A m \in Replies : m.type = "reply" => m.payload = m.body

\* The workers that are inside the retry loop of a job.
InLoop(w) == w_pc[w] \in {"loop", "perform", "sleep"}

\* C7: a worker sends exactly one completion notice for a job if and when
\* an attempt ends with 200 or 206, and none while the job is retrying:
\* per job, the notices sent are 1 if its last attempt ended 2xx, else 0.
C7_NoticePerSuccess ==
  /\ \A j \in 1..MaxJobs :
       job_notices[j] = (IF job_last[j] = "2xx" THEN 1 ELSE 0)
  /\ \A w \in Workers :
       /\ InLoop(w) => job_notices[w_cur[w].id] = 0
       /\ w_pc[w] = "notified" => job_notices[w_cur[w].id] = 1

\* One job has reached 2xx and its notice is sent while another job has
\* failed an attempt and is in a further attempt.
C7_Witness ==
  \E w1, w2 \in Workers :
    /\ w_pc[w1] = "notified"
    /\ job_notices[w_cur[w1].id] = 1
    /\ w_pc[w2] = "perform"
    /\ job_last[w_cur[w2].id] = "failed"
    /\ job_notices[w_cur[w2].id] = 0

\* C8, on the steps of a worker: an attempt that does not end with 200 or
\* 206 leaves the worker with the same job and sends nothing, and the
\* sleep is followed by another attempt on that job.
C8_RetryStep ==
  \A w \in Workers :
    /\ (w_pc[w] = "perform" /\ w_pc'[w] # "perform") =>
         IF job_last'[w_cur[w].id] = "2xx"
         THEN w_pc'[w] = "notified"
         ELSE /\ w_pc'[w] = "sleep"
              /\ w_cur'[w] = w_cur[w]
              /\ mbox' = mbox
    /\ (w_pc[w] = "sleep" /\ w_pc'[w] # "sleep") =>
         /\ w_pc'[w] = "perform"
         /\ w_cur'[w] = w_cur[w]
         /\ mbox' = mbox

\* C8, on the states: while a job is in the retry loop it is the job as
\* submitted, and its submitter has received nothing; no failure message
\* exists, and a reply exists only for a job whose attempt ended 2xx.
C8_NothingBeforeSuccess ==
  /\ \A w \in Workers :
       InLoop(w) =>
         /\ w_cur[w] = ReadMsg(w_cur[w].sender, w_cur[w].id)
         /\ w_cur[w].sender = ClientJob(w_cur[w].id)
         /\ mbox[w_cur[w].sender] = <<>>
         /\ cj_pc[w_cur[w].sender] = "waiting"
  /\ \A m \in Replies :
       /\ m.type # "fail"
       /\ m.type = "reply" => job_last[m.id] = "2xx"

\* C8: a worker never gives up on a job.
C8_NeverGivesUp == []C8_NothingBeforeSuccess /\ [][C8_RetryStep]_vars

\* A job is in a further attempt after a failed one, its submitter waiting.
C8_Witness ==
  \E w \in Workers :
    /\ w_pc[w] = "perform"
    /\ job_last[w_cur[w].id] = "failed"
    /\ cj_pc[w_cur[w].sender] = "waiting"

\* C9: between message handlers the mode of the master matches its pool:
\* the read handler is active (the base behaviour is on top) exactly when
\* the idle list is not empty, the waiting behaviour is on top exactly when
\* it is empty, and no dispatch has found the idle list empty.
C9_ModeMatchesPool ==
  /\ ~ub
  /\ bhvr_stack \in {<<"base">>, <<"base", "wait">>}
  /\ Accepting <=> m_idle_worker # <<>>
  /\ Saturated <=> m_idle_worker = <<>>
  /\ Accepting <=> "read" \in MasterHandles(Active(bhvr_stack))

\* The master is saturated again after it has resumed once.
C9_Witness ==
  /\ Saturated
  /\ nFinished >= 1
  /\ NDispatched > num_curl_workers

\* The read messages of client_job number j in the mailbox of the master.
PendingAt(j) ==
  Cardinality({i \in 1..Len(mbox[Master]) :
                 mbox[Master][i].type = "read" /\ mbox[Master][i].id = j})
PendingReads == SelectSeq(mbox[Master], LAMBDA m : m.type = "read")
IsPrefix(s, t) == Len(s) <= Len(t) /\ SubSeq(t, 1, Len(s)) = s

\* C10, on the states: a submission is neither dropped nor duplicated: it
\* is in the mailbox of the master or has been dispatched, once; and the
\* master can take a step whenever it is accepting and one is pending.
C10_Conservation ==
  /\ \A j \in 1..MaxJobs :
       PendingAt(j) + dispatched[j] =
         (IF cj_pc[ClientJob(j)] \in {"waiting", "done"} THEN 1 ELSE 0)
  /\ (Accepting /\ ReadsAtMaster > 0) =>
       ENABLED (MasterRead \/ MasterFinished)

\* C10, on the steps: a step taken while the master is saturated dispatches
\* nothing and keeps every pending submission, in order; a dispatch is a
\* step of the accepting master.
C10_SaturatedStep ==
  /\ Saturated =>
       /\ dispatched' = dispatched
       /\ IsPrefix(PendingReads, PendingReads')
       /\ \A w \in Workers : Count(mbox'[w], "read") <= Count(mbox[w], "read")
  /\ dispatched' # dispatched => Accepting

\* C10: while the master is saturated no submission is dispatched and none
\* is dropped; each is dispatched once, by the accepting master.
C10_PendingWhileSaturated == []C10_Conservation /\ [][C10_SaturatedStep]_vars

\* While the master is saturated a submission waits in its mailbox in
\* front of a completion notice: the notice will be handled first.
C10_Witness ==
  /\ Saturated
  /\ \E i, k \in 1..Len(mbox[Master]) :
       /\ i < k
       /\ mbox[Master][i].type = "read"
       /\ mbox[Master][k].type = "finished"

\* C11, on the states: the record of a wait exists only in the accepting
\* master, after a completion notice has been handled, and counts job
\* submissions that are still in the mailbox.
C11_Resumption ==
  /\ Saturated => waited = 0
  /\ waited > 0 =>
       /\ Accepting
       /\ nFinished >= 1
       /\ ender \in Workers
       /\ waited <= Len(PendingReads)

\* C11 as stated, on the steps: no job is dispatched by a step of the
\* saturated master, and a job submission that was pending while the master
\* was saturated is dispatched to the worker whose notice ended the wait.
C11_TargetIsEnder ==
  /\ Saturated => dispatched' = dispatched
  /\ \A w \in Workers :
       (waited > 0 /\ outstanding'[w] > outstanding[w]) => w = ender

\* C11 as stated: a job submission that is pending while the master is
\* Saturated is dispatched only after a completion notice has been handled,
\* and to the worker whose notice ended the saturation.
C11_ResumeTargetsEnder == []C11_Resumption /\ [][C11_TargetIsEnder]_vars

\* C11, amended, on the steps: the target is the worker whose notice ended
\* the wait when the master has handled no further notice since; otherwise
\* it is the worker at the back of the idle list, one whose notice was
\* handled after the wait began.
C11_TargetIsLastFreed ==
  /\ Saturated => dispatched' = dispatched
  /\ \A w \in Workers :
       (waited > 0 /\ outstanding'[w] > outstanding[w]) =>
         /\ w = Back(m_idle_worker)
         /\ ~more => w = ender /\ m_idle_worker = <<ender>>
         /\ more => Len(m_idle_worker) >= 2 \/ w # ender

\* C11, amended: a job submission that is pending while the master is
\* Saturated is dispatched only after a completion notice has been handled;
\* its target is the worker whose notice ended the saturation provided the
\* master handles no other completion notice before it dispatches.
C11_ResumeTargetsLastFreed ==
  []C11_Resumption /\ [][C11_TargetIsLastFreed]_vars

\* Pool size 2, three submissions: the third waited, the notice of one
\* worker has ended the wait, and the master is about to dispatch.
C11_Witness ==
  /\ waited > 0
  /\ ~more
  /\ m_count >= num_curl_workers + 1
  /\ ender = Back(m_idle_worker)
  /\ ENABLED MasterRead

\* Every spawned actor has terminated.
AllExited == \A a \in Spawned : Terminated(a)

\* C12 as stated: after the first interrupt main sends the exit request,
\* it reaches every worker and the client, and all spawned actors
\* eventually terminate, so that the wait of main returns (unless a further
\* interrupt ends the process first).
C12_AllTerminate ==
  /\ shutdown_flag ~> (aborted \/ exit_sent = 1)
  /\ shutdown_flag ~> (aborted \/ (AllExited /\ main_pc = "done"))

\* The exit request has done what it can: master, client and client jobs
\* have terminated, and so has every worker but those that are inside
\* their read handler, which have the exit message in their mailbox.
Drained ==
  /\ Terminated(Master)
  /\ Terminated(Client)
  /\ \A c \in ClientJobs : cj_pc[c] # "none" => Terminated(c)
  /\ \A w \in Workers :
       Terminated(w) \/ (InHandler(w) /\ Count(mbox[w], "exit") = 1)

\* C12, amended: after the first interrupt main sends the exit request; it
\* propagates over the links, and the master, the client, every client job
\* and every worker that is not inside its read handler eventually
\* terminate.  A worker inside its handler terminates once the handler has
\* returned; the wait of main returns once all spawned actors have
\* terminated, and not before.
C12_TerminateButBusyWorkers ==
  /\ shutdown_flag ~> (aborted \/ exit_sent = 1)
  /\ (exit_sent = 1) ~> (aborted \/ Drained)
  /\ (main_pc = "await" /\ AllExited) ~> (aborted \/ main_pc = "done")
  /\ [](main_pc = "done" => AllExited /\ exit_sent = 1)

\* A graceful shutdown has run to its end, with a job dispatched before.
C12_Witness ==
  /\ main_pc = "done"
  /\ NDispatched >= 1
  /\ AllExited

\* An interrupt delivered now ends the process.
InterruptAborts == ENABLED (Interrupt /\ aborted')

\* C13 as stated: once the first interrupt has been delivered, any further
\* interrupt ends the process at once, at whatever point of the shutdown
\* sequence of main it arrives.
C13_SecondInterruptAborts ==
  (shutdown_flag /\ ~aborted /\ main_pc # "done") => InterruptAborts

\* C13, amended: the first interrupt only sets the flag.  A further
\* interrupt ends the process at once, whatever the actors do, when it
\* arrives after main has installed its second handler; before that, while
\* main still polls, sends the exit request or is about to install the
\* handler, it sets the flag again and nothing else, unless the flags of
\* the handler make the first delivery restore the default action.
C13_AbortOnlyWhileAwaiting ==
  /\ (~shutdown_flag /\ ~aborted) => sa_handler = "flag" /\ ~InterruptAborts
  /\ (main_pc = "await" /\ ~aborted) =>
       sa_handler = "abort" /\ InterruptAborts
  /\ (shutdown_flag /\ ~aborted /\ main_pc \in {"poll", "send", "install"}) =>
       /\ sa_handler = (IF sa_resethand THEN "default" ELSE "flag")
       /\ InterruptAborts <=> sa_resethand
  /\ aborted => shutdown_flag

\* The process was aborted while main waited and a worker was inside its
\* read handler.
C13_Witness ==
  /\ aborted
  /\ main_pc = "await"
  /\ \E w \in Workers : InHandler(w)

\* C14: however many interrupts arrive and whenever they do, main sends
\* the exit request to the master at most once, namely when it leaves its
\* polling loop, and no actor terminates more than once: a terminated
\* actor holds no message and cannot terminate again; an interrupt
\* repeated before main waits leaves main where it is in its sequence.
C14_ShutdownOnce ==
  /\ exit_sent = (IF main_pc \in {"install", "await", "done"} THEN 1 ELSE 0)
  /\ exit_sent <= 1
  /\ \A a \in Actors :
       Terminated(a) =>
         /\ mbox[a] = <<>>
         /\ ~ENABLED ActorExit(a)
         /\ a \in ClientJobs => ~ENABLED ClientJobHandle(a)
  /\ \A a \in Actors : Count(mbox[a], "exit") <= Cardinality(Links(a))
  /\ Count(mbox[Master], "exit") <= 1
  /\ main_pc # "poll" => shutdown_flag

\* The interrupt was repeated during the graceful phase, and the shutdown
\* it had started has run to its end: every actor has terminated.
C14_Witness ==
  /\ repeated
  /\ ~aborted
  /\ exit_sent = 1
  /\ AllExited
  /\ NDispatched >= 1

\* The job submissions of client_job c that exist or were dispatched.
Submitted(c) == PendingAt(c[2]) + dispatched[c[2]]

\* C15: each client job submits exactly one job when it starts, none
\* before and no further one; it terminates on the first reply or failure
\* notice it receives: one in its mailbox is the message it handles next,
\* it has terminated exactly when it has handled one, and a terminated
\* client job holds no message and handles none.
C15_OneJobOneAnswer ==
  \A c \in ClientJobs :
    /\ cj_pc[c] \in {"none", "spawned", "waiting", "done"}
    /\ Submitted(c) = (IF cj_pc[c] \in {"waiting", "done"} THEN 1 ELSE 0)
    /\ cj_pc[c] = "done" <=> cj_got[c].type \in ClientJobHandles
    /\ cj_pc[c] # "done" =>
         cj_got[c] = NoMsg /\ (Alive(c) <=> cj_pc[c] # "none")
    /\ cj_pc[c] = "done" => mbox[c] = <<>> /\ ~Alive(c)
    /\ (cj_pc[c] = "waiting" /\ mbox[c] # <<>>) =>
         /\ mbox[c][1].type \in ClientJobHandles
         /\ ENABLED ClientJobHandle(c)

\* One client job has terminated on its reply while another one, started
\* later, still waits for its own.
C15_Witness ==
  \E c1, c2 \in ClientJobs :
    /\ cj_pc[c1] = "done"
    /\ cj_got[c1].type = "reply"
    /\ cj_pc[c2] = "waiting"
    /\ Submitted(c2) = 1

\* The client jobs the client has spawned.
SpawnedJobs == {c \in ClientJobs : cj_pc[c] # "none"}

\* C16: the client spawns exactly one client job per tick and schedules
\* exactly one next tick: exactly one tick is on its way at any time, so
\* that never more than one is outstanding and the sequence does not end;
\* the client jobs spawned are as many as the ticks handled (m_count); and
\* the client can handle the tick (up to the MaxJobs ticks of the model).
C16_OneJobPerTick ==
  /\ next_pending = 1
  /\ SpawnedJobs = {ClientJob(j) : j \in 1..m_count}
  /\ Cardinality(SpawnedJobs) = m_count
  /\ m_count < MaxJobs => ENABLED ClientNext

\* Two ticks were handled, the third is on its way; the first client job
\* is already served while the second has not started yet.
C16_Witness ==
  /\ m_count = 2
  /\ next_pending = 1
  /\ cj_pc[ClientJob(1)] = "done"
  /\ cj_pc[ClientJob(2)] = "spawned"

\* C17: with no shutdown, a client job whose job has not obtained 200 or
\* 206 has not terminated and has received no message: it has handled
\* none and its mailbox is empty, however often the job has failed.
C17_UnansweredWithout2xx ==
  \A j \in 1..MaxJobs :
    job_last[j] # "2xx" =>
      /\ cj_pc[ClientJob(j)] # "done"
      /\ cj_got[ClientJob(j)] = NoMsg
      /\ mbox[ClientJob(j)] = <<>>
      /\ ~ENABLED ClientJobHandle(ClientJob(j))

\* A job has failed an attempt and its client job waits with an empty
\* mailbox, while a client job started later has been served.
C17_Witness ==
  \E j, k \in 1..MaxJobs :
    /\ j < k
    /\ job_last[j] = "failed"
    /\ cj_pc[ClientJob(j)] = "waiting"
    /\ mbox[ClientJob(j)] = <<>>
    /\ cj_pc[ClientJob(k)] = "done"

\* Job j has been forwarded to worker w: its read message is in the
\* mailbox of w or in the hands of w, or w has sent the reply to it.
ForwardedTo(w, j) ==
  \/ \E i \in 1..Len(mbox[w]) : mbox[w][i].type = "read" /\ mbox[w][i].id = j
  \/ w_cur[w].id = j
  \/ \E i \in 1..Len(mbox[ClientJob(j)]) :
       mbox[ClientJob(j)][i].type = "reply" /\ mbox[ClientJob(j)][i].sender = w
  \/ cj_got[ClientJob(j)].sender = w

\* The jobs the master has dispatched to worker w so far.
JobsOf(w) == {j \in 1..MaxJobs : dispatched[j] > 0 /\ ForwardedTo(w, j)}

\* C18: the master dispatches round-robin, to the workers in a fixed cyclic
\* order; in particular no worker has been dispatched a second job while
\* another worker has not been dispatched its first.
C18_RoundRobin ==
  \A w, v \in Workers :
    Cardinality(JobsOf(w)) >= 2 => JobsOf(v) # {}

\* C19: until the master has handled its first message it is Accepting,
\* with all num_curl_workers workers spawned and in its idle list and an
\* empty busy list; the first job submission it handles finds them so.
C19_StartsAccepting ==
  (NDispatched = 0 /\ nFinished = 0) =>
    /\ Accepting
    /\ bhvr_stack = <<"base">>
    /\ Len(m_idle_worker) = num_curl_workers
    /\ Range(m_idle_worker) = Workers
    /\ m_busy_worker = <<>>
    /\ \A w \in Workers : Alive(w) /\ w_pc[w] = "idle" /\ mbox[w] = <<>>
    /\ ReadsAtMaster > 0 => ENABLED MasterRead

\* The first job submissions are in the mailbox of the master, which has
\* handled none yet.
C19_Witness ==
  /\ NDispatched = 0
  /\ nFinished = 0
  /\ ReadsAtMaster >= 2
  /\ Len(m_idle_worker) = num_curl_workers

\* The message the master handles next.
MasterMsg == mbox[Master][MasterNext(MasterHandles(Active(bhvr_stack)))]

\* C20, on the steps: the lists and the mode of the master change only in
\* a step that dispatches a job or handles a completion notice.  A dispatch
\* moves one worker, the target, from the idle list to the busy list and
\* leaves the others where they are.  Handling a notice moves its sender,
\* found in the busy list, to the idle list and leaves the others; when the
\* master is Accepting it stays Accepting.
C20_PoolStep ==
  /\ <<m_idle_worker, m_busy_worker, bhvr_stack>>' #
       <<m_idle_worker, m_busy_worker, bhvr_stack>> =>
         (dispatched' # dispatched) # (nFinished' # nFinished)
  /\ dispatched' # dispatched =>
       \E w \in Workers :
         /\ outstanding' = [outstanding EXCEPT ![w] = @ + 1]
         /\ w \in Range(m_idle_worker)
         /\ m_idle_worker' = SelectSeq(m_idle_worker, LAMBDA x : x # w)
         /\ m_busy_worker' = Append(m_busy_worker, w)
         /\ Len(m_idle_worker') = Len(m_idle_worker) - 1
  /\ nFinished' # nFinished =>
       LET s == MasterMsg.sender
       IN  /\ MasterMsg.type = "finished"
           /\ s \in Range(m_busy_worker)
           /\ m_busy_worker' = SelectSeq(m_busy_worker, LAMBDA x : x # s)
           /\ m_idle_worker' = Append(m_idle_worker, s)
           /\ Len(m_busy_worker') = Len(m_busy_worker) - 1
           /\ Accepting => Accepting' /\ bhvr_stack' = bhvr_stack

\* C20: the pool state changes only on dispatch and on completion; a
\* dispatch moves exactly one worker from idle to busy, a completion
\* exactly the sender of the notice from busy to idle, and a completion
\* handled while Accepting leaves the mode Accepting.
C20_PoolChangesOnlyOnEvents == [][C20_PoolStep]_vars

\* The master has dispatched two jobs and handled both notices without
\* ever being saturated: the workers are all idle again, in another order.
C20_Witness ==
  /\ Accepting
  /\ nFinished = 2
  /\ NDispatched = 2
  /\ m_busy_worker = <<>>
  /\ Len(m_idle_worker) = num_curl_workers
  /\ m_idle_worker # SpawnWorkers

\* The job submissions a worker has received: those in its mailbox and the
\* one its handler runs on.
ReceivedBy(w) ==
  {mbox[w][i] : i \in {k \in 1..Len(mbox[w]) : mbox[w][k].type = "read"}} \cup
  (IF w_pc[w] = "idle" THEN {} ELSE {w_cur[w]})

\* C21: the master forwards a job unchanged: a job a worker has received
\* has the resource identifier, the range start and the range end of the
\* submission, and its sender is the client_job that submitted it, not the
\* master; the step that dispatches puts the very message the master took
\* from its mailbox into the mailbox of the worker.
C21_ForwardedUnchanged ==
  /\ \A w \in Workers : \A m \in ReceivedBy(w) :
       /\ m.type = "read"
       /\ m.fname = Url /\ m.offset = RangeFirst /\ m.range = RangeLast
       /\ m.sender = ClientJob(m.id)
       /\ m.sender # Master
       /\ m = ReadMsg(m.sender, m.id)
       /\ dispatched[m.id] = 1
  /\ ENABLED MasterRead =>
       \A mb \in {ForwardTo(mbox, PickWorker(m_idle_worker), MasterMsg)} :
         mb[PickWorker(m_idle_worker)] =
           Append(mbox[PickWorker(m_idle_worker)], MasterMsg)

\* Both workers have received a job: one is inside its handler, the job of
\* the other is still in its mailbox.
C21_Witness ==
  \E w1, w2 \in Workers :
    /\ w_pc[w1] = "perform"
    /\ w_cur[w1].sender \in ClientJobs
    /\ w_pc[w2] = "idle"
    /\ \E m \in ReceivedBy(w2) : m.sender \in ClientJobs \ {w_cur[w1].sender}

\* C22, on the states: the behaviour stack of the master is the base
\* behaviour with at most one waiting behaviour on top of it.
C22_StackShape ==
  /\ Len(bhvr_stack) \in {1, 2}
  /\ bhvr_stack[1] = "base"
  /\ Cardinality({i \in 1..Len(bhvr_stack) : bhvr_stack[i] = "wait"}) <= 1
  /\ Len(bhvr_stack) = 2 => bhvr_stack[2] = "wait"

\* C22, on the steps: the stack changes only by a become that pushes the
\* waiting behaviour onto the bare base behaviour, in a dispatch, and by an
\* unbecome that pops that waiting behaviour, in the handling of a notice.
C22_StackStep ==
  bhvr_stack' # bhvr_stack =>
    \/ /\ bhvr_stack = <<"base">>
       /\ bhvr_stack' = <<"base", "wait">>
       /\ dispatched' # dispatched
       /\ nFinished' = nFinished
    \/ /\ bhvr_stack = <<"base", "wait">>
       /\ bhvr_stack' = <<"base">>
       /\ nFinished' = nFinished + 1
       /\ dispatched' = dispatched

\* C22: at most one wait for a free worker is in effect at a time: the
\* stack holds at most one waiting behaviour on top of the base behaviour,
\* and each unbecome removes the behaviour the preceding become pushed,
\* after any number of waits.
C22_AtMostOneWait == []C22_StackShape /\ [][C22_StackStep]_vars

\* The master waits for the second time: with one notice handled and three
\* jobs dispatched the busy list has this order only when the notice ended
\* a first wait.
C22_Witness ==
  /\ bhvr_stack = <<"base", "wait">>
  /\ nFinished = 1
  /\ NDispatched = 3
  /\ m_busy_worker = <<Worker(1), Worker(2)>>

\* Worker w is idle since a completion notice of its own was handled, not
\* since it was spawned.
Freed(w) == JobsOf(w) # {}

\* C23 as stated, on the steps: a dispatch goes to the idle worker spawned
\* last while no completion notice has been handled, and otherwise to a
\* worker whose completion notice was handled.
C23_TargetAsStated ==
  \A w \in Workers :
    outstanding'[w] > outstanding[w] =>
      IF nFinished = 0
      THEN w = Worker(Len(m_idle_worker))
      ELSE Freed(w)

\* C23 as stated: every dispatch goes to the last worker spawned if no
\* completion has occurred yet, otherwise to the worker whose completion
\* notice was processed most recently among those still idle.
C23_LifoAsStated == [][C23_TargetAsStated]_vars

\* C23, amended, on the states: the idle list is in the order of appending:
\* first the workers never dispatched to, in the order of their spawning,
\* then the workers freed by a completion notice.
C23_IdleOrder ==
  \A i, k \in 1..Len(m_idle_worker) :
    i < k =>
      /\ Freed(m_idle_worker[i]) => Freed(m_idle_worker[k])
      /\ ~Freed(m_idle_worker[k]) =>
           m_idle_worker[i][2] < m_idle_worker[k][2]

\* C23, amended, on the steps: handling a completion notice appends its
\* sender at the back of the idle list; a dispatch takes the worker at the
\* back, the one appended last: one freed by a notice if the list holds
\* such a worker, the one spawned last of the list if it holds none.
C23_LifoStep ==
  /\ nFinished' # nFinished =>
       m_idle_worker' = Append(m_idle_worker, MasterMsg.sender)
  /\ \A w \in Workers :
       outstanding'[w] > outstanding[w] =>
         /\ w = m_idle_worker[Len(m_idle_worker)]
         /\ m_idle_worker' = SubSeq(m_idle_worker, 1, Len(m_idle_worker) - 1)
         /\ Freed(w) <=> \E v \in Range(m_idle_worker) : Freed(v)
         /\ ~Freed(w) =>
              \A v \in Range(m_idle_worker) : v[2] <= w[2]

\* C23, amended: worker selection is LIFO: every dispatch goes to the
\* worker most recently appended to the idle list: the worker whose notice
\* was handled most recently among the idle workers that a notice has
\* freed, and, when no idle worker has been freed by a notice (whether or
\* not a completion has occurred), the idle worker spawned last.
C23_Lifo == []C23_IdleOrder /\ [][C23_LifoStep]_vars

\* The master is about to dispatch with a worker it never used in front of
\* a worker freed by a notice.
C23_Witness ==
  /\ ENABLED MasterRead
  /\ Len(m_idle_worker) = 2
  /\ ~Freed(m_idle_worker[1])
  /\ Freed(m_idle_worker[2])

\* An attempt of worker w ends with 200 or 206.
FetchOk(w) == WorkerAttemptEnds(w) /\ w_pc'[w] = "notified"

\* Every job's fetch eventually returns 200 or 206: a worker that makes
\* attempt after attempt has one that succeeds.
EveryFetchSucceeds == \A w \in Workers : SF_vars(FetchOk(w))

\* The job of client_job number j has reached the master and is not served
\* yet: it waits in the mailbox of the master, or it was dispatched and its
\* client_job has not terminated on a reply.
Unserved(j) ==
  \/ PendingAt(j) > 0
  \/ /\ dispatched[j] = 1
     /\ ~(cj_pc[ClientJob(j)] = "done" /\ cj_got[ClientJob(j)].type = "reply")

\* A job that has reached the master stays pending or dispatched, one of
\* the two, so that it is served once it is no longer unserved.
ReachedMaster(j) == PendingAt(j) + dispatched[j] = 1

\* C24: dispatch resumes after a wait and the system does not deadlock:
\* absent shutdown, if every job's fetch eventually returns 200/206, every
\* job submission that reaches the master is eventually dispatched to a
\* worker and its submitter eventually receives a reply and terminates: a
\* job that has reached the master remains one that has, and again and
\* again no job that has reached the master is unserved.
C24_EventuallyServed ==
  /\ [][\A j \in 1..MaxJobs : ReachedMaster(j) => ReachedMaster(j)']_vars
  /\ EveryFetchSucceeds => []<>(\A j \in 1..MaxJobs : ~Unserved(j))

\* A submission that waited while the master was saturated has been served.
C24_Witness ==
  /\ NDispatched = MaxJobs
  /\ nFinished >= 1
  /\ cj_pc[ClientJob(MaxJobs)] = "done"
  /\ m_busy_worker = <<Worker(1), Worker(2)>>

\* Every worker is inside the retry loop of a job.
AllInLoop == \A w \in Workers : InLoop(w)

\* C25, on the states: a worker inside the retry loop of a job is in the
\* busy list and no completion notice of its is under way; when all workers
\* are, the master is Saturated and can dispatch nothing and free nobody.
C25_StuckState ==
  /\ \A w \in Workers :
       InLoop(w) =>
         /\ w \in Range(m_busy_worker)
         /\ w \notin Range(m_idle_worker)
         /\ \A i \in 1..Len(mbox[Master]) : mbox[Master][i].sender # w
  /\ AllInLoop =>
       /\ Saturated
       /\ Len(m_busy_worker) = num_curl_workers
       /\ ~ENABLED MasterRead
       /\ ~ENABLED MasterFinished

\* C25, on the steps: a worker leaves the retry loop only by an attempt
\* that obtains 200 or 206; as long as all workers stay inside the loop the
\* lists of the master stay as they are and nothing is dispatched.
C25_StuckStep ==
  /\ \A w \in Workers :
       (InLoop(w) /\ ~InLoop(w)') =>
         /\ w_pc'[w] = "notified"
         /\ job_last'[w_cur[w].id] = "2xx"
  /\ (AllInLoop /\ AllInLoop') =>
       /\ dispatched' = dispatched
       /\ <<m_idle_worker, m_busy_worker, bhvr_stack>>' =
            <<m_idle_worker, m_busy_worker, bhvr_stack>>
       /\ IsPrefix(PendingReads, PendingReads')

\* C25: a worker whose job never obtains 200/206 stays in the busy list
\* for ever; if all workers are in that situation the master stays
\* Saturated for ever and no later submission is ever dispatched.
C25_StuckForEver ==
  /\ []C25_StuckState
  /\ [][C25_StuckStep]_vars
  /\ \A w \in Workers :
       <>[]InLoop(w) => <>[](w \in Range(m_busy_worker))
  /\ <>[]AllInLoop => <>[](Saturated /\ ~ENABLED MasterRead)

\* All workers have failed an attempt and try again while a submission
\* waits at the saturated master.
C25_Witness ==
  /\ AllInLoop
  /\ \A w \in Workers : job_last[w_cur[w].id] = "failed"
  /\ Saturated
  /\ ReadsAtMaster >= 1

\* The reply to job j has been sent by worker w.
Replied(w, j) ==
  \/ \E i \in 1..Len(mbox[ClientJob(j)]) :
       mbox[ClientJob(j)][i].type = "reply" /\ mbox[ClientJob(j)][i].sender = w
  \/ cj_got[ClientJob(j)].type = "reply" /\ cj_got[ClientJob(j)].sender = w

\* Worker w has not taken job j from its mailbox yet.
Waiting(w, j) ==
  \E i \in 1..Len(mbox[w]) : mbox[w][i].type = "read" /\ mbox[w][i].id = j

\* Job j is in the hands of worker w: the read handler of w runs on it.
InHand(w, j) == w_pc[w] # "idle" /\ w_cur[w].id = j

\* C26, on the states: a job that was dispatched is with one worker, at
\* one stage: it waits in the mailbox of the worker, untouched, or it is
\* the one job in the hands of the worker, or it is over, its notice and
\* its reply sent.
C26_OneJobInHand ==
  /\ \A w \in Workers : w_pc[w] = "idle" <=> w_cur[w] = NoMsg
  /\ \A j \in 1..MaxJobs :
       dispatched[j] = 1 =>
         \E w \in Workers :
           /\ \A v \in Workers \ {w} :
                ~Waiting(v, j) /\ ~InHand(v, j) /\ ~Replied(v, j)
           /\ IF Waiting(w, j)
              THEN /\ ~InHand(w, j) /\ ~Replied(w, j)
                   /\ job_notices[j] = 0 /\ job_last[j] = "none"
              ELSE IF InHand(w, j)
              THEN ~Replied(w, j)
              ELSE /\ Replied(w, j)
                   /\ job_notices[j] = 1 /\ job_last[j] = "2xx"

\* C26, on the steps: a worker takes a job only when no handler of its
\* runs, that is after the notice and the reply of the job before; the
\* job in its hands changes only when its reply is returned, after its
\* notice; the buffer changes only for the job in its hands.
C26_SequentialStep ==
  \A w \in Workers :
    /\ (w_cur'[w] # w_cur[w] /\ w_cur'[w] # NoMsg) =>
         /\ w_pc[w] = "idle"
         /\ w_cur[w] = NoMsg
         /\ w_pc'[w] = "loop"
    /\ (w_cur'[w] # w_cur[w] /\ w_cur'[w] = NoMsg) =>
         /\ w_pc[w] = "notified"
         /\ job_notices[w_cur[w].id] = 1
         /\ \A j \in {w_cur[w].id} : ~Replied(w, j) /\ Replied(w, j)'
    /\ m_buf'[w] # m_buf[w] => w_pc[w] # "idle" /\ w_cur'[w] = w_cur[w]

\* C26: the jobs of a worker are processed strictly one after the other: a
\* worker begins the first attempt of a job only after it has sent the
\* completion notice and the reply of the job it handled before, so that
\* its jobs never overlap and its buffer serves one job at a time.
C26_Sequential == []C26_OneJobInHand /\ [][C26_SequentialStep]_vars

\* A worker is inside the loop of its second job; the first is over.
C26_Witness ==
  \E w \in Workers :
    /\ InLoop(w)
    /\ \E j \in JobsOf(w) : j # w_cur[w].id /\ Replied(w, j)

\* The actors an abnormal termination reaches over the links.
Pool == {Master, Client} \cup Workers

\* C27 as stated: the abnormal termination of the client, of the master or
\* of a worker causes the master, every worker and the client to terminate.
C27_AllLinkedTerminate == (exited # {}) ~> (Pool \subseteq exited)

\* C27, amended, on the states: while no actor has terminated abnormally
\* no exit message is under way, whatever client jobs have quit; once one
\* has, a living actor linked to a terminated one holds an exit message.
C27_ExitOnlyOnFailure ==
  /\ exited = {} => \A a \in Actors : Count(mbox[a], "exit") = 0
  /\ \A a \in exited : \A b \in Links(a) \cap Pool :
       b \in exited \/ Count(mbox[b], "exit") >= 1
  /\ \A c \in ClientJobs : cj_pc[c] = "done" => c \notin exited

\* C27, amended, on the steps: the first abnormal termination has no exit
\* message for its cause; the termination of a client_job after its reply
\* changes the mailbox of no other actor and terminates nobody.
C27_QuitStep ==
  /\ (exited = {} /\ exited' # {}) =>
       \E a \in Pool : exited' = {a} /\ Count(mbox[a], "exit") = 0
  /\ \A c \in ClientJobs :
       (cj_pc[c] = "waiting" /\ cj_pc'[c] = "done") =>
         /\ exited' = exited
         /\ \A b \in Actors \ {c} : mbox'[b] = mbox[b]

\* C27, amended: failures propagate over the links: the abnormal
\* termination of the client, of the master or of a worker causes the
\* master, the client and every worker that is not inside its read handler
\* to terminate; a worker inside its handler holds the exit message and
\* terminates once the handler has returned.  The normal termination of a
\* client_job after its reply terminates no other actor.
C27_FailurePropagates ==
  /\ []C27_ExitOnlyOnFailure
  /\ [][C27_QuitStep]_vars
  /\ (exited # {}) ~>
       (/\ Master \in exited
        /\ Client \in exited
        /\ \A w \in Workers :
             w \in exited \/ (InHandler(w) /\ Count(mbox[w], "exit") = 1))

\* An actor has failed after a client_job had quit on its reply, and the
\* failure has terminated the master, the client and every worker.
C27_Witness ==
  /\ Pool \subseteq exited
  /\ \E c \in ClientJobs : cj_pc[c] = "done" /\ cj_got[c].type = "reply"
  /\ NDispatched >= 1
  /\ \A a \in Actors : Count(mbox[a], "exit") = 0

\* The completion notices of worker w on their way to the master.
NoticesOf(w) ==
  Cardinality({i \in 1..Len(mbox[Master]) :
                 mbox[Master][i].type = "finished" /\ mbox[Master][i].sender = w})

\* The outstanding items of worker w: the jobs in its mailbox, the job it
\* has not finished, and its notices on their way to the master.
Items(w) ==
  Count(mbox[w], "read") + (IF InLoop(w) THEN 1 ELSE 0) + NoticesOf(w)

\* C28: every completion notice the master handles comes from a worker
\* that is in the busy list at that moment, so that the lookup by sender
\* never fails: each worker in the busy list has exactly one outstanding
\* item, a job not delivered or not finished or a notice on its way, and
\* each worker in the idle list has none.
C28_NoticeFromBusy ==
  /\ ~ub
  /\ \A i \in 1..Len(mbox[Master]) :
       mbox[Master][i].type = "finished" =>
         /\ mbox[Master][i].sender \in Range(m_busy_worker)
         /\ Find(m_busy_worker, mbox[Master][i].sender) <= Len(m_busy_worker)
  /\ ENABLED MasterFinished => MasterMsg.sender \in Range(m_busy_worker)
  /\ \A w \in Range(m_busy_worker) : Items(w) = 1
  /\ \A w \in Range(m_idle_worker) : Items(w) = 0

\* The notice of one busy worker is on its way while the job of the other
\* is not delivered yet, and a notice was handled before.
C28_Witness ==
  /\ nFinished >= 1
  /\ \E w, v \in Range(m_busy_worker) :
       /\ NoticesOf(w) = 1
       /\ Count(mbox[v], "read") = 1
       /\ w_pc[v] = "notified"

\* The types of the messages the actors send each other.
Sent == {"read", "finished", "reply"}

\* C29: no failure message is ever sent, whatever the transport reports:
\* every message in a mailbox is a job, a notice or a reply; the failure
\* handler of a client_job never runs; and a client_job that has
\* terminated has done so on a reply, sent by a worker after 200 or 206.
C29_NoFailMessage ==
  /\ \A a \in Actors : \A i \in 1..Len(mbox[a]) :
       /\ mbox[a][i].type \in Sent
       /\ mbox[a][i].type # "fail"
  /\ \A w \in Workers : w_cur[w].type \in {"none", "read"}
  /\ \A c \in ClientJobs :
       /\ cj_got[c].type \in {"none", "reply"}
       /\ ~ENABLED (ClientJobHandle(c) /\ cj_got'[c].type = "fail")
       /\ cj_pc[c] \in {"done", "killed"} =>
            /\ cj_pc[c] = "done"
            /\ cj_got[c].type = "reply"
            /\ cj_got[c].sender \in Workers
            /\ job_last[c[2]] = "2xx"

\* A client_job has terminated on its reply while the job of another has
\* failed an attempt and its worker sleeps before the next one.
C29_Witness ==
  /\ \E c \in ClientJobs : cj_pc[c] = "done"
  /\ \E w \in Workers :
       /\ w_pc[w] = "sleep"
       /\ job_last[w_cur[w].id] = "failed"
       /\ mbox[w_cur[w].sender] = <<>>

\* The part of sequence t that follows its first n elements.
Rest(t, n) == SubSeq(t, n + 1, Len(t))

\* C30, on the states: an attempt starts on an empty buffer, and during
\* and after an attempt the buffer holds no more than the bytes handed
\* over in that attempt; so does the payload of every reply.
C30_BufferOfAttempt ==
  /\ \A w \in Workers :
       /\ (w_pc[w] = "perform" /\ handed[w] = <<>>) => m_buf[w] = <<>>
       /\ w_pc[w] \in {"perform", "notified"} =>
            /\ Len(m_buf[w]) <= Len(handed[w])
            /\ Range(m_buf[w]) \subseteq Range(handed[w])
  /\ \A m \in Replies :
       m.type = "reply" =>
         /\ Len(m.payload) <= Len(m.body)
         /\ Range(m.payload) \subseteq Range(m.body)

\* C30, on the steps: every entry into an attempt clears the buffer, be
\* it the first attempt of a job or one after a failed attempt; a write
\* appends bytes of the block just handed over and keeps what the attempt
\* has received so far; the reply carries the buffer of the attempt that
\* ended with 200 or 206.
C30_BufferStep ==
  \A w \in Workers :
    /\ (w_pc[w] # "perform" /\ w_pc'[w] = "perform") => m_buf'[w] = <<>>
    /\ (w_pc[w] = "perform" /\ m_buf'[w] # m_buf[w]) =>
         /\ IsPrefix(m_buf[w], m_buf'[w])
         /\ IsPrefix(handed[w], handed'[w])
         /\ IsPrefix(Rest(m_buf'[w], Len(m_buf[w])),
                     Rest(handed'[w], Len(handed[w])))
    /\ (w_pc[w] = "notified" /\ w_pc'[w] = "idle") =>
         /\ job_last[w_cur[w].id] = "2xx"
         /\ Back(mbox'[w_cur[w].sender]).type = "reply"
         /\ Back(mbox'[w_cur[w].sender]).payload = m_buf[w]
         /\ Back(mbox'[w_cur[w].sender]).body = handed[w]

\* C30: the buffer of a worker is cleared at the start of every attempt,
\* so that the payload of a reply holds only bytes received during the
\* attempt that returned 200/206: none of an earlier, failed attempt of
\* the job and none of a job the worker had before.
C30_ClearedEachAttempt == []C30_BufferOfAttempt /\ [][C30_BufferStep]_vars

\* A worker whose job before got a reply with bytes in it has received the
\* first byte of an attempt that follows a failed attempt of its next job.
C30_Witness ==
  \E w \in Workers : \E c \in ClientJobs :
    /\ cj_got[c].sender = w
    /\ cj_got[c].payload # <<>>
    /\ w_pc[w] = "perform"
    /\ job_last[w_cur[w].id] = "failed"
    /\ Len(m_buf[w]) = 1

\* The copies of the job of client_job number j that are with the workers:
\* in their mailboxes and in their hands.
CopiesAtWorkers(j) ==
  Cardinality({<<w, i>> \in Workers \X (1..MaxJobs + 1) :
                 /\ i <= Len(mbox[w])
                 /\ mbox[w][i].type = "read"
                 /\ mbox[w][i].id = j}) +
  Cardinality({w \in Workers : InHand(w, j)})

\* The replies client_job number j has received: those in its mailbox and
\* the one it has handled.
RepliesAt(j) ==
  Count(mbox[ClientJob(j)], "reply") +
  (IF cj_got[ClientJob(j)].type = "reply" THEN 1 ELSE 0)

\* The client jobs that have sent their job to the master.
Submitters == {c \in ClientJobs : cj_pc[c] \in {"waiting", "done"}}

\* C31: every job submission is dispatched to at most one worker and
\* yields at most one reply, in every interleaving: a job is dispatched at
\* most once and only if it was submitted, it exists in one copy at most,
\* at the master or at a worker, at most one notice and one reply are sent
\* for it, and the dispatches never exceed the submissions the master has
\* received, which are those dispatched and those still in its mailbox.
C31_AtMostOnce ==
  /\ \A j \in 1..MaxJobs :
       /\ dispatched[j] <= (IF ClientJob(j) \in Submitters THEN 1 ELSE 0)
       /\ PendingAt(j) + CopiesAtWorkers(j) <= 1
       /\ CopiesAtWorkers(j) <= dispatched[j]
       /\ job_notices[j] <= dispatched[j]
       /\ RepliesAt(j) <= job_notices[j]
       /\ RepliesAt(j) <= 1
       /\ Len(mbox[ClientJob(j)]) <= 1
  /\ NDispatched <= Cardinality(Submitters)
  /\ NDispatched + ReadsAtMaster = Cardinality(Submitters)

\* Every job of the model has been dispatched; two client jobs have
\* handled their replies and the reply to a third is in its mailbox.
C31_Witness ==
  /\ NDispatched = MaxJobs
  /\ Cardinality({c \in ClientJobs : cj_got[c].type = "reply"}) = 2
  /\ \E c \in ClientJobs : Count(mbox[c], "reply") = 1

====
